---- MODULE Spec2Model ----
(***************************************************************************)
(* CountingSemaphore (semaphore/semaphore.go) and its callers.             *)
(*                                                                         *)
(* The semaphore is a buffered channel `sem` of capacity maxPermits, a     *)
(* mirrored counter currentPermits and an RWMutex guarding the counter.    *)
(* Every method is modelled step by step: one action per access to the     *)
(* shared state (channel operation, mutex operation, counter access).      *)
(* Statements that touch only locals are folded into the shared access     *)
(* that precedes them.  The channel carries struct{}{} tokens, so its      *)
(* contents are its length.                                                *)
(***************************************************************************)
EXTENDS Integers, FiniteSets, Sequences, TLC

\* Largest capacity a semaphore is constructed with.
MaxCap == 2
\* Number of tasks calling the semaphore in arbitrary ways.
NumTasks == 2
\* Number of worker goroutines of the demonstration scenario.
NumWorkers == 3

VARIABLES
    maxPermits,      \* cs.maxPermits
    sem,             \* len(cs.sem): tokens resident in the channel
    currentPermits,  \* cs.currentPermits
    mutexW,          \* cs.mutex: the task in Lock() or holding the write lock, or NoTask
    mutexR,          \* cs.mutex: the tasks holding a read lock
    task,            \* per task: the running call, its position and locals
    phase,           \* per task: position of the caller's own script
    dSem,            \* per task: net change its running call made to len(sem)
    dCp,             \* per task: net change its running call made to currentPermits
    acquires         \* per task: Acquire invocations started by its running call

vars == <<maxPermits, sem, currentPermits, mutexW, mutexR, task, phase,
          dSem, dCp, acquires>>

NoTask == 0

Tasks == DOMAIN task

\* A task that has made no call yet.
Fresh ==
    [op |-> "none", pc |-> "idle", n |-> 0, i |-> 0, rn |-> 0, ri |-> 0,
     site |-> "none", avail |-> 0, ret |-> "none", val |-> 0]

\* The effect of the step of task t on the totals of its running call.
Effect(t) ==
    /\ dSem' = [dSem EXCEPT ![t] = @ + (sem' - sem)]
    /\ dCp' = [dCp EXCEPT ![t] = @ + (currentPermits' - currentPermits)]

\* Construction that fills the channel and leaves the counter at zero.
NewCountingSemaphore_CounterUnset(C) ==
    /\ maxPermits = C
    /\ sem = C
    /\ currentPermits = 0
    /\ mutexW = NoTask
    /\ mutexR = {}

\* NewCountingSemaphore(C, timeout): channel filled with C tokens, counter C.
NewCountingSemaphore(C) ==
    /\ maxPermits = C
    /\ sem = C
    /\ currentPermits = C
    /\ mutexW = NoTask
    /\ mutexR = {}

\* sync.RWMutex.  Lock() first excludes the other writers and new readers
\* (mutexW is the writer from then until its Unlock), and then waits for the
\* readers that are inside to leave; RLock() waits while a writer holds the
\* lock or is waiting for it.
CanLock == mutexW = NoTask
CanRLock == mutexW = NoTask
NoReaders == mutexR = {}

(***************************************************************************)
(* Returns.  A method returns to the caller's script (the call was made by *)
(* the task itself) or into the bulk method that invoked it.               *)
(***************************************************************************)

\* Return r (and the value v) from the task's top-level call.
Return(t, r, v) ==
    task' = [task EXCEPT ![t].pc = "done", ![t].ret = r, ![t].val = v]

\* ReleaseN returns r: to the caller, or into AcquireN's rollback (line 92),
\* which drops the result and returns Acquire's error (line 93).
ReleaseN_Return(t, r) ==
    IF task[t].op = "AcquireN"
    THEN Return(t, "timeout", 0)
    ELSE Return(t, r, 0)

\* Release returns r: to the caller, or into ReleaseN's loop (lines 109-114).
Release_Return(t, r) ==
    IF task[t].op = "Release"
    THEN Return(t, r, 0)
    ELSE IF r = "nil"
         THEN task' = [task EXCEPT ![t].pc = "ReleaseN.loop", ![t].ri = @ + 1]
         ELSE ReleaseN_Return(t, r)

\* Acquire returns r: to the caller, or into AcquireN's loop (lines 88-95).
Acquire_Return(t, r) ==
    IF task[t].op = "Acquire"
    THEN Return(t, r, 0)
    ELSE IF r = "nil"
         THEN task' = [task EXCEPT ![t].pc = "AcquireN.loop", ![t].i = @ + 1]
         ELSE task' = [task EXCEPT ![t].pc = "AcquireN.rollback"]

\* AcquireN's pre-check comparing n with the capacity a second time instead
\* of with the count that AvailablePermits returned.
AcquireN_Check_AgainstMax(t, v) ==
    IF maxPermits < task[t].n
    THEN task' = [task EXCEPT ![t].pc = "AvailablePermits", ![t].site = "msg",
                              ![t].avail = v]
    ELSE task' = [task EXCEPT ![t].pc = "AcquireN.loop", ![t].site = "passed",
                              ![t].avail = v, ![t].i = 0]

\* AcquireN's pre-check (lines 84-86) of the count v that AvailablePermits
\* returned: fewer than n sends the call to format its error (a second
\* AvailablePermits, line 85), otherwise the loop starts with i := 0.
AcquireN_Check(t, v) ==
    IF v < task[t].n
    THEN task' = [task EXCEPT ![t].pc = "AvailablePermits", ![t].site = "msg",
                              ![t].avail = v]
    ELSE task' = [task EXCEPT ![t].pc = "AcquireN.loop", ![t].site = "passed",
                              ![t].avail = v, ![t].i = 0]

\* AvailablePermits returns v: to the caller, to AcquireN's check (line 84)
\* or to the formatting of AcquireN's error (line 85).
AvailablePermits_Return(t, v) ==
    CASE task[t].site = "top" -> Return(t, "value", v)
      [] task[t].site = "check" -> AcquireN_Check(t, v)
      [] task[t].site = "msg" -> Return(t, "insufficient", 0)

(***************************************************************************)
(* Acquire (lines 28-38)                                                   *)
(***************************************************************************)

\* Acquire whose select goes on to the counter without a token when the
\* channel is empty.
Acquire_Select_NoToken(t) ==
    /\ task[t].pc = "Acquire"
    /\ sem' = IF sem > 0 THEN sem - 1 ELSE sem
    /\ task' = [task EXCEPT ![t].pc = "Acquire.Lock"]
    /\ UNCHANGED <<maxPermits, currentPermits, mutexW, mutexR, phase, acquires>>
    /\ Effect(t)

\* Acquire that waits for a token with no timeout.
Acquire_Select_NoTimeout(t) ==
    /\ task[t].pc = "Acquire"
    /\ sem > 0
    /\ sem' = sem - 1
    /\ task' = [task EXCEPT ![t].pc = "Acquire.Lock"]
    /\ UNCHANGED <<maxPermits, currentPermits, mutexW, mutexR, phase, acquires>>
    /\ Effect(t)

\* Acquire that decrements the counter on the timeout path too.
Acquire_Select_DecOnTimeout(t) ==
    /\ task[t].pc = "Acquire"
    /\ IF sem > 0
       THEN /\ sem' = sem - 1
            /\ currentPermits' = currentPermits
            /\ task' = [task EXCEPT ![t].pc = "Acquire.Lock"]
       ELSE /\ sem' = sem
            /\ currentPermits' = currentPermits - 1
            /\ Acquire_Return(t, "timeout")
    /\ UNCHANGED <<maxPermits, mutexW, mutexR, phase, acquires>>
    /\ Effect(t)

\* The select: receive a token if one is resident; with none resident the
\* call waits, and the timer case returns the error once it fires.
Acquire_Select(t) ==
    /\ task[t].pc = "Acquire"
    /\ IF sem > 0
       THEN /\ sem' = sem - 1
            /\ task' = [task EXCEPT ![t].pc = "Acquire.Lock"]
       ELSE /\ sem' = sem
            /\ Acquire_Return(t, "timeout")
    /\ UNCHANGED <<maxPermits, currentPermits, mutexW, mutexR, phase, acquires>>
    /\ Effect(t)

Acquire_Lock(t) ==
    /\ task[t].pc = "Acquire.Lock"
    /\ CanLock
    /\ mutexW' = t
    /\ task' = [task EXCEPT ![t].pc = "Acquire.dec"]
    /\ UNCHANGED <<maxPermits, sem, currentPermits, mutexR, phase, acquires>>
    /\ Effect(t)

\* Lock() returns once the readers have left: currentPermits--, return nil,
\* deferred Unlock.
Acquire_Dec(t) ==
    /\ task[t].pc = "Acquire.dec"
    /\ NoReaders
    /\ currentPermits' = currentPermits - 1
    /\ mutexW' = NoTask
    /\ Acquire_Return(t, "nil")
    /\ UNCHANGED <<maxPermits, sem, mutexR, phase, acquires>>
    /\ Effect(t)

(***************************************************************************)
(* TryAcquire (lines 42-52)                                                *)
(***************************************************************************)

\* TryAcquire whose default case reports success like the receive case.
TryAcquire_Select_DefaultTrue(t) ==
    /\ task[t].pc = "TryAcquire"
    /\ sem' = IF sem > 0 THEN sem - 1 ELSE sem
    /\ task' = [task EXCEPT ![t].pc = "TryAcquire.Lock"]
    /\ UNCHANGED <<maxPermits, currentPermits, mutexW, mutexR, phase, acquires>>
    /\ Effect(t)

\* The select with a default case: receive a token if one is resident,
\* otherwise return false at once.
TryAcquire_Select(t) ==
    /\ task[t].pc = "TryAcquire"
    /\ IF sem > 0
       THEN /\ sem' = sem - 1
            /\ task' = [task EXCEPT ![t].pc = "TryAcquire.Lock"]
       ELSE /\ sem' = sem
            /\ Return(t, "false", 0)
    /\ UNCHANGED <<maxPermits, currentPermits, mutexW, mutexR, phase, acquires>>
    /\ Effect(t)

TryAcquire_Lock(t) ==
    /\ task[t].pc = "TryAcquire.Lock"
    /\ CanLock
    /\ mutexW' = t
    /\ task' = [task EXCEPT ![t].pc = "TryAcquire.dec"]
    /\ UNCHANGED <<maxPermits, sem, currentPermits, mutexR, phase, acquires>>
    /\ Effect(t)

\* TryAcquire that returns true without counting the permit.
TryAcquire_Dec_Forgotten(t) ==
    /\ task[t].pc = "TryAcquire.dec"
    /\ NoReaders
    /\ currentPermits' = currentPermits
    /\ mutexW' = NoTask
    /\ Return(t, "true", 0)
    /\ UNCHANGED <<maxPermits, sem, mutexR, phase, acquires>>
    /\ Effect(t)

TryAcquire_Dec(t) ==
    /\ task[t].pc = "TryAcquire.dec"
    /\ NoReaders
    /\ currentPermits' = currentPermits - 1
    /\ mutexW' = NoTask
    /\ Return(t, "true", 0)
    /\ UNCHANGED <<maxPermits, sem, mutexR, phase, acquires>>
    /\ Effect(t)

(***************************************************************************)
(* Release (lines 56-66)                                                   *)
(***************************************************************************)

\* Release on a channel that takes one token more than maxPermits.
Release_Select_Overfull(t) ==
    /\ task[t].pc = "Release"
    /\ IF sem < maxPermits + 1
       THEN /\ sem' = sem + 1
            /\ task' = [task EXCEPT ![t].pc = "Release.Lock"]
       ELSE /\ sem' = sem
            /\ Release_Return(t, "timeout")
    /\ UNCHANGED <<maxPermits, currentPermits, mutexW, mutexR, phase, acquires>>
    /\ Effect(t)

\* The select: send a token if the channel has room; with the channel full
\* the call waits, and the timer case returns the error once it fires.
Release_Select(t) ==
    /\ task[t].pc = "Release"
    /\ IF sem < maxPermits
       THEN /\ sem' = sem + 1
            /\ task' = [task EXCEPT ![t].pc = "Release.Lock"]
       ELSE /\ sem' = sem
            /\ Release_Return(t, "timeout")
    /\ UNCHANGED <<maxPermits, currentPermits, mutexW, mutexR, phase, acquires>>
    /\ Effect(t)

Release_Lock(t) ==
    /\ task[t].pc = "Release.Lock"
    /\ CanLock
    /\ mutexW' = t
    /\ task' = [task EXCEPT ![t].pc = "Release.inc"]
    /\ UNCHANGED <<maxPermits, sem, currentPermits, mutexR, phase, acquires>>
    /\ Effect(t)

\* Release that returns without counting the permit back.
Release_Inc_Forgotten(t) ==
    /\ task[t].pc = "Release.inc"
    /\ NoReaders
    /\ currentPermits' = currentPermits
    /\ mutexW' = NoTask
    /\ Release_Return(t, "nil")
    /\ UNCHANGED <<maxPermits, sem, mutexR, phase, acquires>>
    /\ Effect(t)

\* Lock() returns once the readers have left: currentPermits++, return nil,
\* deferred Unlock.
Release_Inc(t) ==
    /\ task[t].pc = "Release.inc"
    /\ NoReaders
    /\ currentPermits' = currentPermits + 1
    /\ mutexW' = NoTask
    /\ Release_Return(t, "nil")
    /\ UNCHANGED <<maxPermits, sem, mutexR, phase, acquires>>
    /\ Effect(t)

(***************************************************************************)
(* AvailablePermits (lines 69-73)                                          *)
(***************************************************************************)

AvailablePermits_RLock(t) ==
    /\ task[t].pc = "AvailablePermits"
    /\ CanRLock
    /\ mutexR' = mutexR \cup {t}
    /\ task' = [task EXCEPT ![t].pc = "AvailablePermits.read"]
    /\ UNCHANGED <<maxPermits, sem, currentPermits, mutexW, phase, acquires>>
    /\ Effect(t)

\* return cs.currentPermits, deferred RUnlock.
AvailablePermits_Read(t) ==
    /\ task[t].pc = "AvailablePermits.read"
    /\ mutexR' = mutexR \ {t}
    /\ AvailablePermits_Return(t, currentPermits)
    /\ UNCHANGED <<maxPermits, sem, currentPermits, mutexW, phase, acquires>>
    /\ Effect(t)

(***************************************************************************)
(* AcquireN (lines 78-97)                                                  *)
(***************************************************************************)

\* AcquireN whose capacity check is off by one.
AcquireN_CheckMax_OffByOne(t) ==
    /\ task[t].pc = "AcquireN"
    /\ IF task[t].n > maxPermits + 1
       THEN Return(t, "invalid", 0)
       ELSE task' = [task EXCEPT ![t].pc = "AvailablePermits", ![t].site = "check"]
    /\ UNCHANGED <<maxPermits, sem, currentPermits, mutexW, mutexR, phase, acquires>>
    /\ Effect(t)

\* Line 79: n > maxPermits returns the error; otherwise line 84 calls
\* AvailablePermits.
AcquireN_CheckMax(t) ==
    /\ task[t].pc = "AcquireN"
    /\ IF task[t].n > maxPermits
       THEN Return(t, "invalid", 0)
       ELSE task' = [task EXCEPT ![t].pc = "AvailablePermits", ![t].site = "check"]
    /\ UNCHANGED <<maxPermits, sem, currentPermits, mutexW, mutexR, phase, acquires>>
    /\ Effect(t)

\* AcquireN whose loop runs once more than n times.
AcquireN_Loop_OneMore(t) ==
    /\ task[t].pc = "AcquireN.loop"
    /\ IF task[t].i <= task[t].n
       THEN /\ task' = [task EXCEPT ![t].pc = "Acquire"]
            /\ acquires' = [acquires EXCEPT ![t] = @ + 1]
       ELSE /\ Return(t, "nil", 0)
            /\ UNCHANGED acquires
    /\ UNCHANGED <<maxPermits, sem, currentPermits, mutexW, mutexR, phase>>
    /\ Effect(t)

\* Lines 88-96: the next Acquire while i < n, return nil after the last.
AcquireN_Loop(t) ==
    /\ task[t].pc = "AcquireN.loop"
    /\ IF task[t].i < task[t].n
       THEN /\ task' = [task EXCEPT ![t].pc = "Acquire"]
            /\ acquires' = [acquires EXCEPT ![t] = @ + 1]
       ELSE /\ Return(t, "nil", 0)
            /\ UNCHANGED acquires
    /\ UNCHANGED <<maxPermits, sem, currentPermits, mutexW, mutexR, phase>>
    /\ Effect(t)

\* AcquireN whose rollback gives back one permit more than it took.
AcquireN_Rollback_OneMore(t) ==
    /\ task[t].pc = "AcquireN.rollback"
    /\ task' = [task EXCEPT ![t].pc = "ReleaseN", ![t].rn = task[t].i + 1]
    /\ UNCHANGED <<maxPermits, sem, currentPermits, mutexW, mutexR, phase, acquires>>
    /\ Effect(t)

\* Line 92: cs.ReleaseN(i) for the i permits already taken.
AcquireN_Rollback(t) ==
    /\ task[t].pc = "AcquireN.rollback"
    /\ task' = [task EXCEPT ![t].pc = "ReleaseN", ![t].rn = task[t].i]
    /\ UNCHANGED <<maxPermits, sem, currentPermits, mutexW, mutexR, phase, acquires>>
    /\ Effect(t)

(***************************************************************************)
(* ReleaseN (lines 100-116)                                                *)
(***************************************************************************)

ReleaseN_RLock(t) ==
    /\ task[t].pc = "ReleaseN"
    /\ CanRLock
    /\ mutexR' = mutexR \cup {t}
    /\ task' = [task EXCEPT ![t].pc = "ReleaseN.read"]
    /\ UNCHANGED <<maxPermits, sem, currentPermits, mutexW, phase, acquires>>
    /\ Effect(t)

\* ReleaseN comparing n with the capacity instead of with the outstanding
\* count maxPermits - currentPermits.
ReleaseN_Read_AgainstMax(t) ==
    /\ task[t].pc = "ReleaseN.read"
    /\ mutexR' = mutexR \ {t}
    /\ IF task[t].rn > maxPermits
       THEN ReleaseN_Return(t, "invalid")
       ELSE task' = [task EXCEPT ![t].pc = "ReleaseN.loop", ![t].ri = 0]
    /\ UNCHANGED <<maxPermits, sem, currentPermits, mutexW, phase, acquires>>
    /\ Effect(t)

\* Lines 102-107: availableToRelease := maxPermits - currentPermits, RUnlock,
\* and the comparison of n with the snapshot.
ReleaseN_Read(t) ==
    /\ task[t].pc = "ReleaseN.read"
    /\ mutexR' = mutexR \ {t}
    /\ IF task[t].rn > maxPermits - currentPermits
       THEN ReleaseN_Return(t, "invalid")
       ELSE task' = [task EXCEPT ![t].pc = "ReleaseN.loop", ![t].ri = 0]
    /\ UNCHANGED <<maxPermits, sem, currentPermits, mutexW, phase, acquires>>
    /\ Effect(t)

\* Lines 109-115: the next Release while i < n, return nil after the last.
ReleaseN_Loop(t) ==
    /\ task[t].pc = "ReleaseN.loop"
    /\ IF task[t].ri < task[t].rn
       THEN task' = [task EXCEPT ![t].pc = "Release"]
       ELSE ReleaseN_Return(t, "nil")
    /\ UNCHANGED <<maxPermits, sem, currentPermits, mutexW, mutexR, phase, acquires>>
    /\ Effect(t)

\* The steps of the semaphore's methods.
Step(t) ==
    \/ Acquire_Select(t) \/ Acquire_Lock(t) \/ Acquire_Dec(t)
    \/ TryAcquire_Select(t) \/ TryAcquire_Lock(t) \/ TryAcquire_Dec(t)
    \/ Release_Select(t) \/ Release_Lock(t) \/ Release_Inc(t)
    \/ AvailablePermits_RLock(t) \/ AvailablePermits_Read(t)

StepN(t) ==
    \/ AcquireN_CheckMax(t) \/ AcquireN_Loop(t) \/ AcquireN_Rollback(t)
    \/ ReleaseN_RLock(t) \/ ReleaseN_Read(t) \/ ReleaseN_Loop(t)

(***************************************************************************)
(* Callers.  A task between calls (it made none yet, or its last call has  *)
(* returned) invokes a method.                                             *)
(***************************************************************************)

Between(t) == task[t].pc \in {"idle", "done"}

\* Task t invokes method o with argument k (for the bulk methods).
Invoke(t, o, k) ==
    /\ task' = [task EXCEPT ![t] =
                  [Fresh EXCEPT !.op = o, !.pc = o,
                                !.n = IF o = "AcquireN" THEN k ELSE 0,
                                !.rn = IF o = "ReleaseN" THEN k ELSE 0,
                                !.site = IF o = "AvailablePermits" THEN "top" ELSE "none"]]
    /\ dSem' = [dSem EXCEPT ![t] = 0]
    /\ dCp' = [dCp EXCEPT ![t] = 0]
    /\ acquires' = [acquires EXCEPT ![t] = IF o = "Acquire" THEN 1 ELSE 0]
    /\ UNCHANGED <<maxPermits, sem, currentPermits, mutexW, mutexR>>

\* The arguments given to the bulk methods.
Args == 0 .. (maxPermits + 1)

CallAcquire(t) == Between(t) /\ Invoke(t, "Acquire", 0) /\ UNCHANGED phase
CallTryAcquire(t) == Between(t) /\ Invoke(t, "TryAcquire", 0) /\ UNCHANGED phase
CallRelease(t) == Between(t) /\ Invoke(t, "Release", 0) /\ UNCHANGED phase
CallAvailablePermits(t) == Between(t) /\ Invoke(t, "AvailablePermits", 0) /\ UNCHANGED phase
CallAcquireN(t) == Between(t) /\ \E k \in Args : Invoke(t, "AcquireN", k) /\ UNCHANGED phase
CallReleaseN(t) == Between(t) /\ \E k \in Args : Invoke(t, "ReleaseN", k) /\ UNCHANGED phase

\* The state after construction, with tasks T that have made no call.
Start(T, ph) ==
    /\ \E C \in 1 .. MaxCap : NewCountingSemaphore(C)
    /\ task = [t \in T |-> Fresh]
    /\ phase = [t \in T |-> ph]
    /\ dSem = [t \in T |-> 0]
    /\ dCp = [t \in T |-> 0]
    /\ acquires = [t \in T |-> 0]

(***************************************************************************)
(* Spec: NumTasks tasks call the single-permit methods Acquire,            *)
(* TryAcquire, Release and AvailablePermits in any order, concurrently; a  *)
(* Release may be called by a task that holds no permit.                   *)
(***************************************************************************)

Init == Start(1 .. NumTasks, "free")

Next ==
    \E t \in 1 .. NumTasks :
        \/ CallAcquire(t) \/ CallTryAcquire(t) \/ CallRelease(t)
        \/ CallAvailablePermits(t)
        \/ Step(t)

Spec == Init /\ [][Next]_vars

(***************************************************************************)
(* SpecBulk: as Spec, and the first task also calls the bulk methods       *)
(* AcquireN and ReleaseN, with any argument in Args.                       *)
(***************************************************************************)

NextBulk ==
    \/ Next
    \/ CallAcquireN(1) \/ CallReleaseN(1)
    \/ StepN(1)

SpecBulk == Init /\ [][NextBulk]_vars

(***************************************************************************)
(* SpecBulkFair: SpecBulk under fair scheduling of the calls in progress.  *)
(* A task has one step at a time.  A select is always able to step (by its *)
(* channel operation or, while that is not ready, by time.After or         *)
(* default), and a step that waits for the RWMutex is able to step each    *)
(* time the lock is free; the runtime hands a lock that is released to a   *)
(* waiter, which strong fairness expresses.  Callers need not call again.  *)
(***************************************************************************)

SpecBulkFair ==
    /\ SpecBulk
    /\ \A t \in 1 .. NumTasks : SF_vars(Step(t) \/ StepN(t))

(***************************************************************************)
(* SpecAll: every task calls the six methods in any order, with any        *)
(* argument, concurrently.                                                 *)
(***************************************************************************)

NextAll ==
    \E t \in 1 .. NumTasks :
        \/ CallAcquire(t) \/ CallTryAcquire(t) \/ CallRelease(t)
        \/ CallAvailablePermits(t) \/ CallAcquireN(t) \/ CallReleaseN(t)
        \/ Step(t)
        \/ StepN(t)

SpecAll == Init /\ [][NextAll]_vars

(***************************************************************************)
(* SpecWorkers: the worker goroutines of the demonstration (main, lines    *)
(* 22-48).  Each worker calls Acquire; on an error it returns; otherwise   *)
(* it reports AvailablePermits, sleeps, calls Release (dropping its        *)
(* result) and reports AvailablePermits again.                             *)
(***************************************************************************)

Returned(t) == task[t].pc = "done"

\* Line 30: err := sem.Acquire()
Worker_Acquire(w) ==
    /\ phase[w] = "start"
    /\ Invoke(w, "Acquire", 0)
    /\ phase' = [phase EXCEPT ![w] = "acquire"]

\* Lines 31-34: the Acquire failed, the goroutine returns.
Worker_Failed(w) ==
    /\ phase[w] = "acquire" /\ Returned(w) /\ task[w].ret # "nil"
    /\ phase' = [phase EXCEPT ![w] = "finished"]
    /\ UNCHANGED <<maxPermits, sem, currentPermits, mutexW, mutexR, task,
                   dSem, dCp, acquires>>

\* Line 36: the Acquire succeeded, the worker reports AvailablePermits().
Worker_Inside(w) ==
    /\ phase[w] = "acquire" /\ Returned(w) /\ task[w].ret = "nil"
    /\ Invoke(w, "AvailablePermits", 0)
    /\ phase' = [phase EXCEPT ![w] = "inside"]

\* Lines 39-42: after the sleep, sem.Release().
Worker_Release(w) ==
    /\ phase[w] = "inside" /\ Returned(w)
    /\ Invoke(w, "Release", 0)
    /\ phase' = [phase EXCEPT ![w] = "release"]

\* Line 43: Release returned (its result is dropped), AvailablePermits().
Worker_Report(w) ==
    /\ phase[w] = "release" /\ Returned(w)
    /\ Invoke(w, "AvailablePermits", 0)
    /\ phase' = [phase EXCEPT ![w] = "report"]

\* The goroutine ends (deferred wg.Done()).
Worker_Finish(w) ==
    /\ phase[w] = "report" /\ Returned(w)
    /\ phase' = [phase EXCEPT ![w] = "finished"]
    /\ UNCHANGED <<maxPermits, sem, currentPermits, mutexW, mutexR, task,
                   dSem, dCp, acquires>>

InitWorkers == Start(1 .. NumWorkers, "start")

NextWorkers ==
    \E w \in 1 .. NumWorkers :
        \/ Worker_Acquire(w) \/ Worker_Failed(w) \/ Worker_Inside(w)
        \/ Worker_Release(w) \/ Worker_Report(w) \/ Worker_Finish(w)
        \/ Acquire_Select(w) \/ Acquire_Lock(w) \/ Acquire_Dec(w)
        \/ Release_Select(w) \/ Release_Lock(w) \/ Release_Inc(w)
        \/ AvailablePermits_RLock(w) \/ AvailablePermits_Read(w)

SpecWorkers == InitWorkers /\ [][NextWorkers]_vars

(***************************************************************************)
(* SpecClients: correct use.  Each client loops: it asks for a permit with *)
(* Acquire or TryAcquire while it holds none, calls Release only while it  *)
(* holds the permit of its own successful Acquire/TryAcquire, and may call *)
(* AvailablePermits at any time.                                           *)
(***************************************************************************)

\* Whether client t holds a permit, once its last call has returned.
Holds(t) ==
    IF Returned(t) /\ task[t].op \in {"Acquire", "TryAcquire"}
    THEN task[t].ret \in {"nil", "true"}
    ELSE phase[t] = "in"

Client_Acquire(t) ==
    /\ Between(t) /\ ~Holds(t)
    /\ Invoke(t, "Acquire", 0)
    /\ phase' = [phase EXCEPT ![t] = "out"]

Client_TryAcquire(t) ==
    /\ Between(t) /\ ~Holds(t)
    /\ Invoke(t, "TryAcquire", 0)
    /\ phase' = [phase EXCEPT ![t] = "out"]

Client_Release(t) ==
    /\ Between(t) /\ Holds(t)
    /\ Invoke(t, "Release", 0)
    /\ phase' = [phase EXCEPT ![t] = "out"]

Client_AvailablePermits(t) ==
    /\ Between(t)
    /\ Invoke(t, "AvailablePermits", 0)
    /\ phase' = [phase EXCEPT ![t] = IF Holds(t) THEN "in" ELSE "out"]

InitClients == Start(1 .. NumWorkers, "out")

NextClients ==
    \E t \in 1 .. NumWorkers :
        \/ Client_Acquire(t) \/ Client_TryAcquire(t) \/ Client_Release(t)
        \/ Client_AvailablePermits(t)
        \/ Step(t)

SpecClients == InitClients /\ [][NextClients]_vars

(***************************************************************************)
(* SpecSeq: one caller, no concurrency.  As main does, it reads            *)
(* AvailablePermits right after construction (lines 13-16) and calls       *)
(* TryAcquire in a row (lines 60-66), here maxPermits + 1 times; it may    *)
(* then call the single-permit methods in any order, and at any point make *)
(* the round trip of lines 77-84: AcquireN(n) for an n up to the available *)
(* count, and ReleaseN(n) right after.  phase[t].at is the caller's        *)
(* position and phase[t].k the number of TryAcquire calls made in a row    *)
(* since construction, or the n of the round trip.  During the round trip  *)
(* dSem and dCp run across both calls.                                     *)
(***************************************************************************)

Seq_Fresh(t) ==
    /\ phase[t].at = "new"
    /\ Invoke(t, "AvailablePermits", 0)
    /\ phase' = [phase EXCEPT ![t].at = "fresh"]

Seq_TryAcquire(t) ==
    /\ phase[t].at \in {"fresh", "try"} /\ Returned(t)
    /\ phase[t].k <= maxPermits
    /\ Invoke(t, "TryAcquire", 0)
    /\ phase' = [phase EXCEPT ![t] = [at |-> "try", k |-> phase[t].k + 1]]

Seq_Call(t) ==
    /\ phase[t].at \in {"fresh", "try", "free", "releaseN"} /\ Returned(t)
    /\ \E o \in {"Acquire", "TryAcquire", "Release", "AvailablePermits"} :
          Invoke(t, o, 0)
    /\ phase' = [phase EXCEPT ![t] = [at |-> "free", k |-> 0]]

\* Line 77: AcquireN(n), for an n the semaphore has available.
Seq_AcquireN(t) ==
    /\ phase[t].at \in {"fresh", "try", "free", "releaseN"} /\ Returned(t)
    /\ \E k \in 0 .. currentPermits :
          /\ Invoke(t, "AcquireN", k)
          /\ phase' = [phase EXCEPT ![t] = [at |-> "acquireN", k |-> k]]

\* Line 84: ReleaseN(n) right after the AcquireN(n).
Seq_ReleaseN(t) ==
    /\ phase[t].at = "acquireN" /\ Returned(t)
    /\ task' = [task EXCEPT ![t] =
                  [Fresh EXCEPT !.op = "ReleaseN", !.pc = "ReleaseN",
                                !.rn = phase[t].k]]
    /\ acquires' = [acquires EXCEPT ![t] = 0]
    /\ phase' = [phase EXCEPT ![t].at = "releaseN"]
    /\ UNCHANGED <<maxPermits, sem, currentPermits, mutexW, mutexR, dSem, dCp>>

\* The steps of the bulk methods, which run during the round trip.
Seq_StepN(t) ==
    /\ phase[t].at \in {"acquireN", "releaseN"}
    /\ StepN(t)

InitSeq == Start(1 .. 1, [at |-> "new", k |-> 0])

NextSeq ==
    \/ Seq_Fresh(1) \/ Seq_TryAcquire(1) \/ Seq_Call(1)
    \/ Seq_AcquireN(1) \/ Seq_ReleaseN(1)
    \/ Step(1)
    \/ Seq_StepN(1)

SpecSeq == InitSeq /\ [][NextSeq]_vars

(***************************************************************************)
(* SpecHolders: correct use with the bulk methods.  A holder with no       *)
(* permit asks for one (Acquire, TryAcquire) or for n (AcquireN); a holder *)
(* whose request succeeded gives back what it got, with Release after      *)
(* Acquire/TryAcquire and with ReleaseN(n) after AcquireN(n).  A request   *)
(* that failed leaves the holder with no permit to give back.              *)
(***************************************************************************)

\* Whether holder t got permits from its last call, which has returned.
Got(t) ==
    /\ Returned(t)
    /\ task[t].op \in {"Acquire", "TryAcquire", "AcquireN"}
    /\ task[t].ret \in {"nil", "true"}

Holder_Acquire(t) ==
    /\ Between(t) /\ ~Got(t)
    /\ Invoke(t, "Acquire", 0)
    /\ UNCHANGED phase

Holder_TryAcquire(t) ==
    /\ Between(t) /\ ~Got(t)
    /\ Invoke(t, "TryAcquire", 0)
    /\ UNCHANGED phase

Holder_Release(t) ==
    /\ Got(t) /\ task[t].op \in {"Acquire", "TryAcquire"}
    /\ Invoke(t, "Release", 0)
    /\ UNCHANGED phase

Holder_AcquireN(t) ==
    /\ Between(t) /\ ~Got(t)
    /\ \E k \in Args : Invoke(t, "AcquireN", k)
    /\ UNCHANGED phase

Holder_ReleaseN(t) ==
    /\ Got(t) /\ task[t].op = "AcquireN"
    /\ Invoke(t, "ReleaseN", task[t].n)
    /\ UNCHANGED phase

InitHolders == Start(1 .. NumTasks, "out")

NextHolders ==
    \E t \in 1 .. NumTasks :
        \/ Holder_Acquire(t) \/ Holder_TryAcquire(t) \/ Holder_Release(t)
        \/ Holder_AcquireN(t) \/ Holder_ReleaseN(t)
        \/ Step(t) \/ StepN(t)

SpecHolders == InitHolders /\ [][NextHolders]_vars

(***************************************************************************)
(* SpecDemo: the demonstration program from the launch of the workers on.  *)
(* The workers are those of SpecWorkers; main is one more task, which      *)
(* waits for all of them (wg.Wait, line 51) and then runs lines 55-88      *)
(* alone.  phase[Main].at is main's position and phase[Main].k the number  *)
(* of TryAcquire calls made by the loop of line 60.                        *)
(***************************************************************************)

\* NewCountingSemaphore(2, 5*time.Second)
DemoPermits == 2
\* for i := 0; i < 3; i++ { sem.TryAcquire() }
DemoTries == 3
\* sem.AcquireN(2), sem.ReleaseN(2)
DemoBulk == 2

Main == NumWorkers + 1

WorkersDone == \A w \in 1 .. NumWorkers : phase[w] = "finished"

Main_Goto(at, k) == phase' = [phase EXCEPT ![Main] = [at |-> at, k |-> k]]

\* Lines 51-55: wg.Wait(), then AvailablePermits().
Main_AfterWorkers ==
    /\ phase[Main].at = "wait" /\ WorkersDone
    /\ Invoke(Main, "AvailablePermits", 0)
    /\ Main_Goto("after", 0)

\* Lines 60-66: TryAcquire(), DemoTries times.
Main_TryAcquire ==
    /\ phase[Main].at \in {"after", "try"} /\ Returned(Main)
    /\ phase[Main].k < DemoTries
    /\ Invoke(Main, "TryAcquire", 0)
    /\ Main_Goto("try", phase[Main].k + 1)

\* Line 69: availableAfterTry := sem.AvailablePermits()
Main_Count ==
    /\ phase[Main].at = "try" /\ Returned(Main)
    /\ phase[Main].k = DemoTries
    /\ Invoke(Main, "AvailablePermits", 0)
    /\ Main_Goto("count", 0)

\* Line 70: sem.ReleaseN(availableAfterTry), its result dropped.
Main_ReleaseAll ==
    /\ phase[Main].at = "count" /\ Returned(Main)
    /\ Invoke(Main, "ReleaseN", task[Main].val)
    /\ Main_Goto("releaseAll", 0)

\* Line 71: AvailablePermits(), printed after "all permits released".
Main_Released ==
    /\ phase[Main].at = "releaseAll" /\ Returned(Main)
    /\ Invoke(Main, "AvailablePermits", 0)
    /\ Main_Goto("released", 0)

\* Line 77: err := sem.AcquireN(2)
Main_AcquireN ==
    /\ phase[Main].at = "released" /\ Returned(Main)
    /\ Invoke(Main, "AcquireN", DemoBulk)
    /\ Main_Goto("acquireN", 0)

\* Lines 78-79: the AcquireN failed; main prints the error and ends.
Main_Failed ==
    /\ phase[Main].at = "acquireN" /\ Returned(Main) /\ task[Main].ret # "nil"
    /\ Main_Goto("end", 0)
    /\ UNCHANGED <<maxPermits, sem, currentPermits, mutexW, mutexR, task,
                   dSem, dCp, acquires>>

\* Line 81: the AcquireN succeeded, AvailablePermits().
Main_Got ==
    /\ phase[Main].at = "acquireN" /\ Returned(Main) /\ task[Main].ret = "nil"
    /\ Invoke(Main, "AvailablePermits", 0)
    /\ Main_Goto("got", 0)

\* Line 84: sem.ReleaseN(2)
Main_ReleaseN ==
    /\ phase[Main].at = "got" /\ Returned(Main)
    /\ Invoke(Main, "ReleaseN", DemoBulk)
    /\ Main_Goto("releaseN", 0)

\* Line 85: AvailablePermits(), and main ends.
Main_Final ==
    /\ phase[Main].at = "releaseN" /\ Returned(Main)
    /\ Invoke(Main, "AvailablePermits", 0)
    /\ Main_Goto("end", 0)

\* main's next statement.
Main_Script ==
    /\ phase[Main].at # "end"
    /\ \/ Main_AfterWorkers \/ Main_TryAcquire \/ Main_Count
       \/ Main_ReleaseAll \/ Main_Released \/ Main_AcquireN
       \/ Main_Failed \/ Main_Got \/ Main_ReleaseN \/ Main_Final

\* The steps of the methods main has called.
Main_Step ==
    /\ phase[Main].at # "wait"
    /\ (Step(Main) \/ StepN(Main))

InitDemo ==
    /\ NewCountingSemaphore(DemoPermits)
    /\ task = [t \in 1 .. Main |-> Fresh]
    /\ phase = [t \in 1 .. Main |->
                  IF t = Main THEN [at |-> "wait", k |-> 0] ELSE "start"]
    /\ dSem = [t \in 1 .. Main |-> 0]
    /\ dCp = [t \in 1 .. Main |-> 0]
    /\ acquires = [t \in 1 .. Main |-> 0]

NextDemo ==
    \/ NextWorkers
    \/ Main_Script
    \/ Main_Step

SpecDemo == InitDemo /\ [][NextDemo]_vars

(***************************************************************************)
(* Properties                                                              *)
(***************************************************************************)

\* A worker holds a permit: its Acquire has returned nil and its Release
\* has not yet deposited the token.
Inside(w) ==
    \/ phase[w] = "acquire" /\ Returned(w) /\ task[w].ret = "nil"
    \/ phase[w] = "inside"
    \/ phase[w] = "release" /\ task[w].pc = "Release"

AllFinished == \A w \in Tasks : phase[w] = "finished"

\* C1 (SpecWorkers): at most maxPermits workers hold a permit at any time.
C1_MutualExclusion ==
    Cardinality({w \in Tasks : Inside(w)}) <= maxPermits

\* As many workers inside as there are permits, while another one waits in
\* Acquire.
C1_Witness ==
    /\ maxPermits >= 2
    /\ Cardinality({w \in Tasks : Inside(w)}) = maxPermits
    /\ \E w \in Tasks : phase[w] = "acquire" /\ task[w].pc = "Acquire"

\* C2 (SpecClients): currentPermits, the value AvailablePermits returns, is
\* within 0 .. maxPermits in every reachable state.
C2_CounterInRange ==
    currentPermits \in 0 .. maxPermits

\* C3 (SpecClients): currentPermits equals the number of tokens resident in
\* the channel in every reachable state.
C3_CounterEqualsPool ==
    currentPermits = sem

\* C4 (SpecWorkers): once every worker has finished, the counter and the
\* channel are back at maxPermits.
C4_RestoredAtCompletion ==
    AllFinished => (currentPermits = maxPermits /\ sem = maxPermits)

\* Every worker has finished, one after a failed Acquire and one after its
\* Release.
C4_Witness ==
    /\ AllFinished
    /\ \E w \in Tasks : task[w].op = "Acquire" /\ task[w].ret = "timeout"
    /\ \E w \in Tasks : task[w].op = "AvailablePermits"

\* C5 (SpecClients): a TryAcquire whose select runs while currentPermits is 0
\* returns false in that step and changes neither the counter nor the
\* channel.
C5_TryAcquireAtZero ==
    [][\A t \in Tasks :
          (task[t].pc = "TryAcquire" /\ currentPermits = 0
             /\ task'[t].pc # "TryAcquire")
          => /\ task'[t].pc = "done"
             /\ task'[t].ret = "false"
             /\ sem' = sem
             /\ currentPermits' = currentPermits]_vars

\* C6 (SpecClients): when Release is only called by the holder of a permit,
\* the channel has room whenever a Release is at its select, and no Release
\* returns the timeout error.
C6_ReleaseHasRoom ==
    \A t \in Tasks :
        /\ task[t].pc = "Release" => sem < maxPermits
        /\ ~(task[t].op = "Release" /\ task[t].ret = "timeout")

\* A Release has returned nil while another client is at its Release.
C6_Witness ==
    \E t, u \in Tasks :
        /\ task[t].op = "Release" /\ Returned(t) /\ task[t].ret = "nil"
        /\ task[u].pc = "Release"

\* C7 (Spec): an Acquire call that returned the timeout error has changed
\* neither the channel nor the counter.
C7_AcquireTimeoutNoEffect ==
    \A t \in Tasks :
        (task[t].op = "Acquire" /\ Returned(t) /\ task[t].ret = "timeout")
        => (dSem[t] = 0 /\ dCp[t] = 0)

C7_Witness ==
    \E t \in Tasks :
        /\ task[t].op = "Acquire" /\ Returned(t) /\ task[t].ret = "timeout"
        /\ sem = 0

\* A Release call of task t, made by the task or by a bulk method, is at
\* its select while the channel is full, and t takes a step.
ReleaseOnFull(t) ==
    /\ task[t].pc = "Release"
    /\ sem = maxPermits
    /\ task'[t] # task[t]

\* C8 (Spec): the channel never holds more than maxPermits tokens; a Release
\* whose select runs on a full channel returns the timeout error, without
\* changing channel or counter; and a Release call that returned the timeout
\* error has changed neither.
C8_ReleaseOnFullPool ==
    /\ [](sem <= maxPermits)
    /\ [](\A t \in Tasks :
            (task[t].op = "Release" /\ Returned(t) /\ task[t].ret = "timeout")
            => (dSem[t] = 0 /\ dCp[t] = 0))
    /\ [][\A t \in Tasks :
            ReleaseOnFull(t)
            => /\ task'[t].pc = "done"
               /\ task'[t].ret = "timeout"
               /\ sem' = sem
               /\ currentPermits' = currentPermits]_vars

C8_Witness ==
    \E t \in Tasks :
        /\ task[t].op = "Release" /\ Returned(t) /\ task[t].ret = "timeout"
        /\ sem = maxPermits

\* C9 (SpecBulk): AcquireN(n) with n > maxPermits returns the error in its first
\* step, having started no Acquire and changed neither channel nor counter.
C9_AcquireNOverCapacity ==
    \A t \in Tasks :
        (task[t].op = "AcquireN" /\ task[t].n > maxPermits
           /\ task[t].pc # "AcquireN")
        => /\ Returned(t)
           /\ task[t].ret = "invalid"
           /\ acquires[t] = 0
           /\ dSem[t] = 0
           /\ dCp[t] = 0

\* An over-capacity AcquireN has returned while permits were out and the
\* counter and the channel differed.
C9_Witness ==
    \E t \in Tasks :
        /\ task[t].op = "AcquireN" /\ task[t].n > maxPermits /\ Returned(t)
        /\ sem < maxPermits
        /\ currentPermits # sem

\* AcquireN of task t has compared n with the count it observed.
Observed(t) ==
    task[t].op = "AcquireN" /\ task[t].site \in {"msg", "passed"}

\* C10 (SpecBulk): AcquireN(n) with n <= maxPermits that observed fewer than n
\* available permits goes on only to format and return the
\* insufficient-permits error: it starts no Acquire and changes neither
\* channel nor counter.
C10_AcquireNPreCheck ==
    \A t \in Tasks :
        (Observed(t) /\ task[t].n <= maxPermits /\ task[t].avail < task[t].n)
        => /\ task[t].pc \in {"AvailablePermits", "AvailablePermits.read", "done"}
           /\ Returned(t) => task[t].ret = "insufficient"
           /\ acquires[t] = 0
           /\ dSem[t] = 0
           /\ dCp[t] = 0

\* An AcquireN within capacity has returned the insufficient-permits error.
C10_Witness ==
    \E t \in Tasks :
        /\ Observed(t) /\ task[t].n <= maxPermits /\ task[t].avail < task[t].n
        /\ Returned(t) /\ task[t].ret = "insufficient"

\* ReleaseN of task t, called by the task or by AcquireN's rollback, reads
\* its snapshot while n exceeds maxPermits - currentPermits.
ReleaseNOverOutstanding(t) ==
    /\ task[t].pc = "ReleaseN.read"
    /\ task[t].rn > maxPermits - currentPermits
    /\ task'[t] # task[t]

\* C12 (SpecBulk): ReleaseN(n) with n greater than the outstanding count it
\* reads returns in that step (the caller's ReleaseN with the error), having
\* performed no Release and changed neither channel nor counter; and a
\* ReleaseN call that returned that error has changed neither.
C12_ReleaseNBoundCheck ==
    /\ [](\A t \in Tasks :
            (task[t].op = "ReleaseN" /\ Returned(t) /\ task[t].ret = "invalid")
            => (dSem[t] = 0 /\ dCp[t] = 0 /\ task[t].ri = 0))
    /\ [][\A t \in Tasks :
            ReleaseNOverOutstanding(t)
            => /\ task'[t].pc = "done"
               /\ task[t].op = "ReleaseN"
                    => (task'[t].ret = "invalid" /\ dSem'[t] = 0 /\ dCp'[t] = 0)
               /\ task'[t].ri = 0
               /\ sem' = sem
               /\ currentPermits' = currentPermits]_vars

\* A ReleaseN within the capacity, but over the outstanding count, has
\* returned the error.
C12_Witness ==
    \E t \in Tasks :
        /\ task[t].op = "ReleaseN" /\ Returned(t) /\ task[t].ret = "invalid"
        /\ task[t].rn <= maxPermits

\* The call of task t has received a token and not yet decremented the
\* counter.
TakenNotCounted(t) ==
    task[t].pc \in {"Acquire.Lock", "Acquire.dec", "TryAcquire.Lock", "TryAcquire.dec"}

\* The call of task t has sent a token and not yet incremented the counter.
DepositedNotCounted(t) ==
    task[t].pc \in {"Release.Lock", "Release.inc"}

\* C19 (SpecBulk): currentPermits is the number of tokens in the channel,
\* plus the calls that took a token and have not yet decremented, minus the
\* calls that deposited a token and have not yet incremented.
C19_ExactDivergence ==
    currentPermits = sem + Cardinality({t \in Tasks : TakenNotCounted(t)})
                         - Cardinality({t \in Tasks : DepositedNotCounted(t)})

\* One call is between its receive and its decrement while another is
\* between its send and its increment: the two cancel, and the counter
\* equals the channel with calls in flight.
C19_Witness ==
    /\ \E t, u \in Tasks : TakenNotCounted(t) /\ DepositedNotCounted(u)
    /\ currentPermits = sem
    /\ sem < maxPermits

\* Client t has a token out of the channel: received by its Acquire or
\* TryAcquire and not yet sent back by its Release.
HasToken(t) ==
    CASE task[t].op \in {"Acquire", "TryAcquire"} ->
            \/ TakenNotCounted(t)
            \/ Returned(t) /\ task[t].ret \in {"nil", "true"}
      [] task[t].op = "Release" -> task[t].pc = "Release"
      [] OTHER -> phase[t] = "in"

\* C20 (SpecClients): the tokens in the channel and the tokens held by the
\* clients add up to maxPermits, and the channel holds 0 .. maxPermits tokens.
C20_PermitConservation ==
    /\ sem + Cardinality({t \in Tasks : HasToken(t)}) = maxPermits
    /\ sem \in 0 .. maxPermits

\* All permits are out, one of them held by a client inside Release, while
\* another client's Acquire has timed out.
C20_Witness ==
    /\ sem = 0
    /\ maxPermits >= 2
    /\ \E t, u \in Tasks :
          /\ task[t].pc = "Release"
          /\ task[u].op = "Acquire" /\ Returned(u) /\ task[u].ret = "timeout"

\* C11 (SpecSeq): with no concurrent caller, AcquireN(n) for 0 <= n <=
\* AvailablePermits() returns nil having taken n permits, and the ReleaseN(n)
\* right after it returns nil with channel and counter back at their values
\* before the AcquireN.
C11_BulkRoundTrip ==
    \A t \in Tasks :
        /\ (phase[t].at = "acquireN" /\ Returned(t))
           => /\ task[t].ret = "nil"
              /\ dSem[t] = - phase[t].k
              /\ dCp[t] = - phase[t].k
        /\ (phase[t].at = "releaseN" /\ Returned(t))
           => /\ task[t].ret = "nil"
              /\ dSem[t] = 0
              /\ dCp[t] = 0
              /\ currentPermits = sem

\* A round trip of two permits has returned.
C11_Witness ==
    \E t \in Tasks :
        /\ phase[t].at = "releaseN" /\ Returned(t)
        /\ phase[t].k >= 2

\* C13 (SpecSeq): right after NewCountingSemaphore(C) the channel holds C
\* tokens and AvailablePermits() returns C.
C13_FreshSemaphore ==
    \A t \in Tasks :
        /\ phase[t].at = "new"
           => (sem = maxPermits /\ currentPermits = maxPermits)
        /\ (phase[t].at = "fresh" /\ Returned(t))
           => /\ task[t].ret = "value"
              /\ task[t].val = maxPermits
              /\ sem = maxPermits

\* The first call on a semaphore of capacity >= 2 was AvailablePermits, and
\* it has returned.
C13_Witness ==
    \E t \in Tasks :
        /\ phase[t].at = "fresh" /\ Returned(t)
        /\ maxPermits >= 2

\* C14 (SpecSeq): of maxPermits + 1 TryAcquire calls in a row on a fresh
\* semaphore, the k-th returns true and leaves maxPermits - k permits for
\* k <= maxPermits, and the last returns false with 0 permits left.
C14_TryAcquireExhaustion ==
    \A t \in Tasks :
        (phase[t].at = "try" /\ Returned(t))
        => IF phase[t].k <= maxPermits
           THEN /\ task[t].ret = "true"
                /\ currentPermits = maxPermits - phase[t].k
                /\ sem = maxPermits - phase[t].k
           ELSE /\ task[t].ret = "false"
                /\ currentPermits = 0
                /\ sem = 0

\* The call after the last permit was taken has returned false.
C14_Witness ==
    \E t \in Tasks :
        /\ phase[t].at = "try" /\ Returned(t)
        /\ phase[t].k = maxPermits + 1
        /\ task[t].ret = "false"

\* C15 (SpecHolders): an AcquireN(n) that returned the timeout error had
\* passed its checks, its i-th constituent Acquire (0-based) timed out, it
\* called ReleaseN(i) and that released all i permits: the call's net change
\* of the channel and of the counter is zero.
C15_AcquireNRollback ==
    \A t \in Tasks :
        (task[t].op = "AcquireN" /\ Returned(t) /\ task[t].ret = "timeout")
        => /\ task[t].site = "passed"
           /\ acquires[t] = task[t].i + 1
           /\ task[t].rn = task[t].i
           /\ task[t].ri = task[t].i
           /\ dSem[t] = 0
           /\ dCp[t] = 0

\* An AcquireN that had taken a permit before it timed out has returned.
C15_Witness ==
    \E t \in Tasks :
        /\ task[t].op = "AcquireN" /\ Returned(t) /\ task[t].ret = "timeout"
        /\ task[t].i >= 1

\* C16 (SpecHolders): a constituent Acquire of AcquireN(n) times out only on
\* an empty channel and after the call's own pre-check had passed with
\* AvailablePermits() >= n; that this happens is C16_Witness.
C16_CheckThenAct ==
    [][\A t \in Tasks :
          (task[t].op = "AcquireN" /\ task'[t].pc = "AcquireN.rollback"
           /\ task[t].pc # "AcquireN.rollback")
          => /\ task[t].pc = "Acquire"
             /\ sem = 0
             /\ task[t].site = "passed"
             /\ task[t].avail >= task[t].n
             /\ task[t].i < task[t].n]_vars

\* Two concurrent AcquireN(2) calls on a capacity-2 semaphore passed their
\* pre-checks, took one permit each, and both returned the timeout error.
C16_Witness ==
    /\ maxPermits = 2
    /\ \E t, u \in Tasks :
          /\ t # u
          /\ \A x \in {t, u} :
                /\ task[x].op = "AcquireN" /\ task[x].n = 2
                /\ Returned(x) /\ task[x].ret = "timeout"
                /\ task[x].site = "passed" /\ task[x].avail = 2
                /\ task[x].i = 1

\* C17 (SpecDemo): in the demonstration, after the three TryAcquire calls the
\* ReleaseN of line 70 gives back every permit they took, so the
\* AvailablePermits() of line 71 returns 2 with 2 tokens in the channel, and
\* the AcquireN(2) of line 77 returns nil.
C17_DemoReleaseAll ==
    /\ (phase[Main].at = "released" /\ Returned(Main))
       => /\ task[Main].val = DemoPermits
          /\ sem = DemoPermits
    /\ (phase[Main].at = "acquireN" /\ Returned(Main))
       => task[Main].ret = "nil"

\* Task t's call, or a call made by its bulk method, leaves the select of
\* Acquire (of Release) in this step.
LeavesAcquireSelect(t) == task[t].pc = "Acquire" /\ task'[t].pc # "Acquire"
LeavesReleaseSelect(t) == task[t].pc = "Release" /\ task'[t].pc # "Release"

\* C18 (SpecBulkFair): under fair scheduling every invoked call returns;
\* a call leaves the select of Acquire (Release) only with a token taken
\* (deposited) or, the channel being empty (full), by the timeout, and the
\* select of TryAcquire can always step.
C18_EveryCallReturns ==
    /\ \A t \in 1 .. NumTasks :
          (task[t].pc \notin {"idle", "done"}) ~> (task[t].pc = "done")
    /\ [][\A t \in 1 .. NumTasks :
            /\ LeavesAcquireSelect(t)
               => \/ sem > 0 /\ sem' = sem - 1 /\ task'[t].pc = "Acquire.Lock"
                  \/ /\ sem = 0 /\ sem' = sem
                     /\ task'[t].pc \in {"done", "AcquireN.rollback"}
            /\ LeavesReleaseSelect(t)
               => \/ sem < maxPermits /\ sem' = sem + 1
                     /\ task'[t].pc = "Release.Lock"
                  \/ /\ sem = maxPermits /\ sem' = sem
                     /\ task'[t].pc = "done" /\ task'[t].ret = "timeout"]_vars
    /\ [](\A t \in 1 .. NumTasks :
            task[t].pc = "TryAcquire" => ENABLED TryAcquire_Select(t))

\* An AcquireN that waited on the empty channel and a Release that waited on
\* the full channel have both returned, by the timeout.
C18_Witness ==
    \E t, u \in Tasks :
        /\ t # u
        /\ task[t].op = "AcquireN" /\ Returned(t) /\ task[t].ret = "timeout"
        /\ task[u].op = "Release" /\ Returned(u) /\ task[u].ret = "timeout"

====
